---- MODULE Spec2Model ----
(***************************************************************************)
(* Scroll-driven animation controllers of the meduza front end:            *)
(*   - ComplexHorizontal (phase-orchestrated complex scroller),            *)
(*   - MeduzaHorizontal  (beat-synchronised card gallery),                 *)
(*   - HorizontalScroll  (single-axis scroller) and LenisScroll,           *)
(*   - App               (root application, debounced resize handler).     *)
(*                                                                         *)
(* Units.  A scroll progress in [0,1] is an integer number of thousandths. *)
(* A horizontal translation in percent is an integer number of             *)
(* 1/(100*HorizontalSpan) percent, so that -66.67 * (p - 0.2) / 0.75 is    *)
(* the exact integer -WrapperEndX * (p - FlipPhaseEnd).  An inline style   *)
(* value is a record [inline, v]: inline = FALSE is "no inline override".  *)
(***************************************************************************)
EXTENDS Integers, Sequences, FiniteSets, TLC

VARIABLES
    \* ---- ComplexHorizontal ----
    dom,              \* which elements the document holds (querySelector results)
    scrollTriggers,   \* this.scrollTriggers: the live triggers of the scroller
    pinnedImgClone,   \* this.pinnedImgClone: 0 is null, n > 0 the n-th clone node
    isImgCloneActive, \* this.isImgCloneActive
    flipAnimation,    \* this.flipAnimation: [exists, target, progress, paused]
    flipEntered,      \* the flip trigger has been entered and not left backward since
    bodyClones,       \* clone nodes attached to document.body
    imgOpacity,       \* opacity of the source marquee image, 0 or 1
    containerBg,      \* inline backgroundColor of #app
    wrapperX,         \* inline x of .horizontal__wrapper
    cloneX,           \* inline x of the node this.pinnedImgClone refers to
    marqueeX,         \* inline x of .marquee__track
    progress,         \* progress last handed to handleMainScrollUpdate, -1 before any
    \* ---- MeduzaHorizontal ----
    checked,          \* toggle.checked of every card
    paused,           \* audio.paused of every card
    currentTime,      \* audio.currentTime of every card: 0 at the start, 1 further on
    pendingPlay,      \* per card: play() promises not settled yet
    rejectedPlay,     \* per card: play() promises rejected, catch callback not run yet
    currentAudio,     \* let currentAudio: 0 is null, else the card
    beatTween, beatColorTween, cardsBeatTween,  \* this.*Tween: is a tween referenced
    liveLoopTweens,   \* looping pulse tweens alive in the animation engine
    thrown,           \* controllers on which a call has thrown
    \* ---- HorizontalScroll / LenisScroll life cycle ----
    hsDom,            \* which elements of the single-axis scroller the document holds
    hsScrollTrigger,  \* HorizontalScroll.scrollTrigger is registered
    hsObserver,       \* HorizontalScroll.observer is connected
    lenisAlive,       \* the inertial model of LenisScroll has not been destroyed
    destroyed,        \* controllers whose destroy has completed
    slideParts,       \* per slide: does it hold an img, a .title h1
    sliderWidth,      \* layout: slider.offsetWidth
    slidesWidth,      \* layout: slidesContainer.offsetWidth
    totalMove,        \* HorizontalScroll.totalMove (cached)
    slideWidth,       \* HorizontalScroll.slideWidth (cached)
    currentVisibleIndex, \* HorizontalScroll.currentVisibleIndex: {} is null, else {i}
    titleY,           \* per slide: inline y its title is animated to
    slidesX,          \* inline x of .slides, in 1/One px
    imageX,           \* per slide: inline x of its img, in 1/(4*One) px
    tickerRaf,        \* the raf closure of LenisScroll is registered in gsap.ticker
    staleRaf,         \* a frame tick has run lenis.raf on the destroyed model
    mhDom,            \* which elements of the gallery the document holds
    mhTriggers,       \* scroll triggers registered by the gallery's set-up
    \* ---- App ----
    markers,          \* which marker elements the document holds
    appReady,         \* App.setup has run
    instances,        \* controllers instantiated by App.initializeAnimations
    timers,           \* pending timeouts: the remaining delay of each, in ms
    resizeTimer,      \* let resizeTimer: -1 is undefined, else the remaining delay of its timeout
    sinceResize,      \* ms elapsed since the last resize event (capped at DebounceMs)
    burstRefreshes    \* ScrollTrigger.refresh executions since the current burst began

chVars == <<dom, scrollTriggers, pinnedImgClone, isImgCloneActive, flipAnimation,
            flipEntered,
            bodyClones, imgOpacity, containerBg, wrapperX, cloneX,
            marqueeX, progress>>
mhVars == <<checked, paused, currentTime, pendingPlay, rejectedPlay, currentAudio,
            beatTween, beatColorTween, cardsBeatTween, liveLoopTweens>>
hsVars == <<slideParts, sliderWidth, slidesWidth, totalMove, slideWidth,
            currentVisibleIndex, titleY, slidesX, imageX>>
tickerVars == <<tickerRaf, staleRaf>>
setupVars == <<mhDom, mhTriggers>>
lifeVars == <<hsDom, hsScrollTrigger, hsObserver, lenisAlive, destroyed, thrown,
              hsVars, tickerVars, setupVars>>
appVars == <<markers, appReady, instances, timers, resizeTimer, sinceResize,
             burstRefreshes>>
vars == <<chVars, mhVars, lifeVars, appVars>>

----------------------------------------------------------------------------
(* Bounds of the model *)

GridN == 20         \* progress samples: the multiples of 1/GridN
NumCards == 2       \* cards of the gallery
MaxPromises == 2    \* unsettled or unhandled play() promises per card
TicksPerDelay == 10 \* clock ticks in one debounce delay
NumSlides == 3      \* slides of the single-axis scroller
MaxWidth == 2       \* widest slider, in px
MaxEntries == 2     \* entries handed to one callback of the intersection observer

(* Program constants *)

One == 1000                 \* progress 1.0, in thousandths
ColorPhaseEnd == 50         \* 0.05
FlipPhaseEnd == 200         \* 0.2
HorizontalPhaseEnd == 950   \* 0.95
HorizontalSpan == 750       \* 0.75
WrapperEndX == 6667         \* 66.67 percent, in hundredths
CloneSlides == 3            \* "3 slides"
CloneEndX == 20000          \* 200 percent, in hundredths
DebounceMs == 250           \* delay of the resize timeout
TitleOutY == -200           \* y of a title out of view
VisibleRatio == 25          \* intersection ratio of a visible slide, in hundredths
LightColor == <<240, 236, 228>>   \* --color-light, as <<r, g, b>>
DarkColor == <<17, 20, 25>>       \* --color-dark

NoInline == [inline |-> FALSE, v |-> 0]         \* a length: stylesheet default
NoInlineColor == [inline |-> FALSE, v |-> <<>>] \* a colour: stylesheet default
Inline(value) == [inline |-> TRUE, v |-> value]
Percent(hundredths) == hundredths * HorizontalSpan

\* The progress values fed to the dispatcher: the phase boundaries, the middle
\* of the colour phase, and a regular grid.
Boundaries == {0, ColorPhaseEnd \div 2, ColorPhaseEnd, FlipPhaseEnd,
               HorizontalPhaseEnd, One}
Progresses == Boundaries \cup {(k * One) \div GridN : k \in 0..GridN}
KeyProgresses ==
    Boundaries \cup {ColorPhaseEnd \div 5, FlipPhaseEnd \div 2, FlipPhaseEnd + 100,
                     HorizontalPhaseEnd + 10}

----------------------------------------------------------------------------
(* ComplexHorizontal: elements cached by setupElements *)

Elements == {"app", "marquee", "marqueeTrack", "horizontal", "horizontalWrapper",
             "pinImg"}

container == dom["app"]
marqueeSection == dom["marquee"]
marqueeTrack == dom["marqueeTrack"]
horizontalSection == dom["horizontal"]
horizontalWrapper == dom["horizontalWrapper"]
\* the early return of setupElements leaves pinnedMarqueeImg null
pinnedMarqueeImg == dom["marquee"] /\ dom["horizontal"] /\ dom["pinImg"]

\* The triggers the four create* steps of init() register.
CreatedTriggers ==
    (IF marqueeTrack THEN {"marquee"} ELSE {})
    \cup (IF horizontalSection THEN {"pin", "main"} ELSE {})
    \cup (IF marqueeSection /\ pinnedMarqueeImg THEN {"clone", "flip"} ELSE {})

\* the element each scroll trigger of the complex scroller is created on
triggerElement(t) ==
    CASE t = "marquee" -> "marquee"
      [] t = "pin" -> "horizontal"
      [] t = "clone" -> "marquee"
      [] t = "flip" -> "horizontal"
      [] t = "main" -> "horizontal"

NoFlip == [exists |-> FALSE, target |-> 0, progress |-> 0, paused |-> FALSE]

Min(a, b) == IF a <= b THEN a ELSE b

\* Math.round of num / den, for den > 0
Round(num, den) == (2 * num + den) \div (2 * den)

\* gsap.utils.interpolate(start, end, f) on two colours, f in thousandths:
\* every channel is interpolated linearly and rounded to an integer.
interpolate(start, end, f) ==
    [i \in 1..3 |-> Round(start[i] * One + (end[i] - start[i]) * f, One)]

\* updateBackgroundColor with the two colours of the interpolation exchanged
updateBackgroundColor_Swapped(p, bg) ==
    IF ~container THEN bg
    ELSE IF p <= ColorPhaseEnd
         THEN LET bgColorProgress == Min((p * One) \div ColorPhaseEnd, One)
              IN  Inline(interpolate(DarkColor, LightColor, bgColorProgress))
         ELSE Inline(DarkColor)

\* updateBackgroundColor(progress): the new inline background of the container
updateBackgroundColor(p, bg) ==
    IF ~container THEN bg
    ELSE IF p <= ColorPhaseEnd
         THEN LET bgColorProgress == Min((p * One) \div ColorPhaseEnd, One)
              IN  Inline(interpolate(LightColor, DarkColor, bgColorProgress))
         ELSE Inline(DarkColor)

\* updateFlipAnimation without its else branch: nothing is set beyond 0.2
updateFlipAnimation_NoClamp(p, flip) ==
    IF ~flip.exists THEN flip
    ELSE IF p <= FlipPhaseEnd
         THEN [flip EXCEPT !.progress = (p * One) \div FlipPhaseEnd]
         ELSE flip

\* updateFlipAnimation(progress): the animation after the scrub
updateFlipAnimation(p, flip) ==
    IF ~flip.exists THEN flip
    ELSE IF p <= FlipPhaseEnd
         THEN [flip EXCEPT !.progress = (p * One) \div FlipPhaseEnd]
         ELSE [flip EXCEPT !.progress = One]

\* updateHorizontalScroll(progress), wrapper part: the new inline x of the wrapper
updateWrapperX(p, x) ==
    IF p > FlipPhaseEnd /\ p <= HorizontalPhaseEnd
    THEN IF horizontalWrapper THEN Inline(-WrapperEndX * (p - FlipPhaseEnd)) ELSE x
    ELSE IF p > HorizontalPhaseEnd
         THEN IF horizontalWrapper THEN Inline(Percent(-WrapperEndX)) ELSE x
         ELSE x

\* updateHorizontalScroll(progress), clone part: the new inline x of the clone
updateCloneX(p, x) ==
    IF p > FlipPhaseEnd /\ p <= HorizontalPhaseEnd
    THEN IF pinnedImgClone # 0
         THEN Inline(-(WrapperEndX * CloneSlides * (p - FlipPhaseEnd)))
         ELSE x
    ELSE IF p > HorizontalPhaseEnd
         THEN IF pinnedImgClone # 0 THEN Inline(Percent(-CloneEndX)) ELSE x
         ELSE x

\* handleMainScrollUpdate(self): the onUpdate callback of the master trigger
handleMainScrollUpdate(p) ==
    /\ "main" \in scrollTriggers
    /\ progress' = p
    /\ containerBg' = updateBackgroundColor(p, containerBg)
    /\ flipAnimation' = updateFlipAnimation(p, flipAnimation)
    /\ wrapperX' = updateWrapperX(p, wrapperX)
    /\ cloneX' = updateCloneX(p, cloneX)
    /\ UNCHANGED <<dom, scrollTriggers, pinnedImgClone, isImgCloneActive,
                   bodyClones, imgOpacity, marqueeX, flipEntered>>
    /\ UNCHANGED <<mhVars, lifeVars, appVars>>

\* a node distinct from every node still attached or still animated
FreshClone ==
    CHOOSE n \in 1..(Cardinality(bodyClones) + 2) :
        n \notin bodyClones /\ n # flipAnimation.target

\* createPinnedImgClone without the isImgCloneActive guard
createPinnedImgClone_NoGuard ==
    IF ~pinnedMarqueeImg
    THEN UNCHANGED <<pinnedImgClone, bodyClones, cloneX, imgOpacity, isImgCloneActive>>
    ELSE /\ pinnedImgClone' = FreshClone
         /\ bodyClones' = bodyClones \cup {FreshClone}
         /\ cloneX' = NoInline
         /\ imgOpacity' = 0
         /\ isImgCloneActive' = TRUE

\* createPinnedImgClone()
createPinnedImgClone ==
    IF isImgCloneActive \/ ~pinnedMarqueeImg
    THEN UNCHANGED <<pinnedImgClone, bodyClones, cloneX, imgOpacity, isImgCloneActive>>
    ELSE /\ pinnedImgClone' = FreshClone
         /\ bodyClones' = bodyClones \cup {FreshClone}
         /\ cloneX' = NoInline
         /\ imgOpacity' = 0
         /\ isImgCloneActive' = TRUE

removePinnedImgClone_KeepsHidden ==
    IF ~isImgCloneActive
    THEN UNCHANGED <<pinnedImgClone, bodyClones, cloneX, imgOpacity, isImgCloneActive>>
    ELSE /\ bodyClones' = bodyClones \ {pinnedImgClone}
         /\ pinnedImgClone' = 0
         /\ cloneX' = NoInline
         /\ UNCHANGED imgOpacity
         /\ isImgCloneActive' = FALSE

removePinnedImgClone_Noop ==
    UNCHANGED <<pinnedImgClone, bodyClones, cloneX, imgOpacity, isImgCloneActive>>

\* removePinnedImgClone()
removePinnedImgClone ==
    IF ~isImgCloneActive
    THEN UNCHANGED <<pinnedImgClone, bodyClones, cloneX, imgOpacity, isImgCloneActive>>
    ELSE /\ IF pinnedImgClone # 0
            THEN /\ bodyClones' = bodyClones \ {pinnedImgClone}
                 /\ pinnedImgClone' = 0
                 /\ cloneX' = NoInline
            ELSE UNCHANGED <<pinnedImgClone, bodyClones, cloneX>>
         /\ imgOpacity' = IF pinnedMarqueeImg THEN 1 ELSE imgOpacity
         /\ isImgCloneActive' = FALSE

\* initializeFlipAnimation()
initializeFlipAnimation ==
    IF pinnedImgClone = 0 \/ ~isImgCloneActive \/ flipAnimation.exists
    THEN UNCHANGED flipAnimation
    ELSE flipAnimation' = [exists |-> TRUE, target |-> pinnedImgClone,
                           progress |-> 0, paused |-> TRUE]

resetFlipAnimation_KeepsWrapper ==
    /\ flipAnimation' = NoFlip
    /\ containerBg' = IF container THEN Inline(LightColor) ELSE containerBg
    /\ UNCHANGED wrapperX

\* resetFlipAnimation()
resetFlipAnimation ==
    /\ flipAnimation' = NoFlip
    /\ containerBg' = IF container THEN Inline(LightColor) ELSE containerBg
    /\ wrapperX' = IF horizontalWrapper THEN Inline(0) ELSE wrapperX

\* cloneTrigger: onEnter, onEnterBack, onLeaveBack
cloneTrigger_onEnter ==
    /\ "clone" \in scrollTriggers
    /\ createPinnedImgClone
    /\ UNCHANGED <<dom, scrollTriggers, flipAnimation, flipEntered, containerBg, wrapperX,
                   marqueeX, progress>>
    /\ UNCHANGED <<mhVars, lifeVars, appVars>>

cloneTrigger_onEnterBack ==
    /\ "clone" \in scrollTriggers
    /\ createPinnedImgClone
    /\ UNCHANGED <<dom, scrollTriggers, flipAnimation, flipEntered, containerBg, wrapperX,
                   marqueeX, progress>>
    /\ UNCHANGED <<mhVars, lifeVars, appVars>>

cloneTrigger_onLeaveBack ==
    /\ "clone" \in scrollTriggers
    /\ removePinnedImgClone
    /\ UNCHANGED <<dom, scrollTriggers, flipAnimation, flipEntered, containerBg, wrapperX,
                   marqueeX, progress>>
    /\ UNCHANGED <<mhVars, lifeVars, appVars>>

\* flipTrigger: onEnter, onLeaveBack
flipTrigger_onEnter ==
    /\ "flip" \in scrollTriggers
    /\ initializeFlipAnimation
    /\ flipEntered' = TRUE
    /\ UNCHANGED <<dom, scrollTriggers, pinnedImgClone, isImgCloneActive, bodyClones,
                   imgOpacity, containerBg, wrapperX, cloneX, marqueeX, progress>>
    /\ UNCHANGED <<mhVars, lifeVars, appVars>>

flipTrigger_onLeaveBack ==
    /\ "flip" \in scrollTriggers
    /\ resetFlipAnimation
    /\ flipEntered' = FALSE
    /\ UNCHANGED <<dom, scrollTriggers, pinnedImgClone, isImgCloneActive, bodyClones,
                   imgOpacity, cloneX, marqueeX, progress>>
    /\ UNCHANGED <<mhVars, lifeVars, appVars>>

\* the onUpdate callback of the marquee trigger; x in thousandths of a percent
marqueeTrigger_onUpdate(q) ==
    /\ "marquee" \in scrollTriggers
    /\ marqueeX' = Inline(-75000 + q * 25)
    /\ UNCHANGED <<dom, scrollTriggers, pinnedImgClone, isImgCloneActive,
                   flipAnimation, flipEntered, bodyClones, imgOpacity, containerBg,
                   wrapperX, cloneX, progress>>
    /\ UNCHANGED <<mhVars, lifeVars, appVars>>

\* ComplexHorizontal.destroy()
complexDestroy ==
    /\ scrollTriggers' = {}
    /\ flipEntered' = FALSE
    /\ flipAnimation' = NoFlip
    /\ removePinnedImgClone
    /\ containerBg' = IF container THEN NoInlineColor ELSE containerBg
    /\ marqueeX' = IF marqueeTrack THEN NoInline ELSE marqueeX
    /\ wrapperX' = IF horizontalWrapper THEN NoInline ELSE wrapperX
    /\ destroyed' = destroyed \cup {"complex"}
    /\ UNCHANGED <<dom, progress>>
    /\ UNCHANGED <<mhVars, appVars>>
    /\ UNCHANGED <<hsDom, hsScrollTrigger, hsObserver, lenisAlive, thrown>>
    /\ UNCHANGED <<hsVars, tickerVars, setupVars>>

----------------------------------------------------------------------------
(* MeduzaHorizontal: card music and beat pulse *)

Cards == 1..NumCards

\* startBeatPulse without its guard
startBeatPulse_NoGuard ==
    /\ beatTween' = TRUE
    /\ beatColorTween' = TRUE
    /\ cardsBeatTween' = TRUE
    /\ liveLoopTweens' = liveLoopTweens + 3

\* startBeatPulse(bpm)
startBeatPulse ==
    IF beatTween \/ beatColorTween \/ cardsBeatTween
    THEN UNCHANGED <<beatTween, beatColorTween, cardsBeatTween, liveLoopTweens>>
    ELSE /\ beatTween' = TRUE
         /\ beatColorTween' = TRUE
         /\ cardsBeatTween' = TRUE
         /\ liveLoopTweens' = liveLoopTweens + 3

\* how many of the three references hold a tween, each killed by stopBeatPulse
ReferencedTweens ==
    (IF beatTween THEN 1 ELSE 0) + (IF beatColorTween THEN 1 ELSE 0)
    + (IF cardsBeatTween THEN 1 ELSE 0)

\* stopBeatPulse()
stopBeatPulse_KeepsCards ==
    /\ beatTween' = FALSE
    /\ beatColorTween' = FALSE
    /\ UNCHANGED cardsBeatTween
    /\ liveLoopTweens' = liveLoopTweens - (IF beatTween THEN 1 ELSE 0)
                          - (IF beatColorTween THEN 1 ELSE 0)

stopBeatPulse ==
    /\ beatTween' = FALSE
    /\ beatColorTween' = FALSE
    /\ cardsBeatTween' = FALSE
    /\ liveLoopTweens' = liveLoopTweens - ReferencedTweens

\* audio.pause() on the cards of set A: the element is paused and its pending
\* play() promises are rejected (their catch callbacks run later).
pauseAudio(A, f) == [k \in Cards |-> IF k \in A THEN TRUE ELSE f[k]]
abortPending(A, f) == [k \in Cards |-> IF k \in A THEN 0 ELSE f[k]]
abortRejected(A, pend, rej) ==
    [k \in Cards |-> IF k \in A THEN rej[k] + pend[k] ELSE rej[k]]

\* the exclusivity branch leaving the other toggles as they are
uncheckOthers_None(c, toggles) == toggles

\* document.querySelectorAll(".play-btn").forEach(btn => { if (btn !== toggle) .. })
uncheckOthers(c, toggles) == [k \in Cards |-> IF k = c THEN toggles[k] ELSE FALSE]

\* the "change" listener of card c, run after the browser has flipped the toggle;
\* allowed: whether the browser lets play() start the element
toggleChange(c, allowed) ==
    LET other == currentAudio # 0 /\ currentAudio # c
        prev == IF other THEN {currentAudio} ELSE {}
        flipped == [checked EXCEPT ![c] = ~checked[c]]
        reset == IF other THEN uncheckOthers(c, flipped) ELSE flipped
        timeReset == [k \in Cards |-> IF k \in prev THEN 0 ELSE currentTime[k]]
    IN  /\ checked' = reset
        /\ currentTime' = timeReset
        /\ UNCHANGED currentAudio
        /\ IF reset[c]
           THEN \* audio.play(): a promise, settled later
                /\ pendingPlay[c] + rejectedPlay[c] < MaxPromises
                /\ IF allowed
                   THEN /\ paused' = [pauseAudio(prev, paused) EXCEPT ![c] = FALSE]
                        /\ pendingPlay' = [abortPending(prev, pendingPlay)
                                             EXCEPT ![c] = pendingPlay[c] + 1]
                        /\ rejectedPlay' = abortRejected(prev, pendingPlay, rejectedPlay)
                   ELSE /\ paused[c]
                        /\ paused' = pauseAudio(prev, paused)
                        /\ pendingPlay' = abortPending(prev, pendingPlay)
                        /\ rejectedPlay' =
                              [abortRejected(prev, pendingPlay, rejectedPlay)
                                 EXCEPT ![c] = @ + 1]
                /\ UNCHANGED <<beatTween, beatColorTween, cardsBeatTween,
                               liveLoopTweens>>
           ELSE /\ allowed
                /\ paused' = pauseAudio(prev \cup {c}, paused)
                /\ pendingPlay' = abortPending(prev \cup {c}, pendingPlay)
                /\ rejectedPlay' = abortRejected(prev \cup {c}, pendingPlay, rejectedPlay)
                /\ stopBeatPulse
        /\ UNCHANGED <<chVars, lifeVars, appVars>>

\* audio.play().then(...) of card c
playResolved(c) ==
    /\ pendingPlay[c] > 0
    /\ pendingPlay' = [pendingPlay EXCEPT ![c] = @ - 1]
    /\ currentTime' = [currentTime EXCEPT ![c] = 1]
    /\ currentAudio' = c
    /\ startBeatPulse
    /\ UNCHANGED <<checked, paused, rejectedPlay>>
    /\ UNCHANGED <<chVars, lifeVars, appVars>>

playRejected_Resets(c) ==
    /\ rejectedPlay[c] > 0
    /\ rejectedPlay' = [rejectedPlay EXCEPT ![c] = @ - 1]
    /\ checked' = [checked EXCEPT ![c] = FALSE]
    /\ currentAudio' = 0
    /\ UNCHANGED <<paused, currentTime, pendingPlay, beatTween,
                   beatColorTween, cardsBeatTween, liveLoopTweens>>
    /\ UNCHANGED <<chVars, lifeVars, appVars>>

\* audio.play().catch(...) of card c
playRejected(c) ==
    /\ rejectedPlay[c] > 0
    /\ rejectedPlay' = [rejectedPlay EXCEPT ![c] = @ - 1]
    /\ checked' = [checked EXCEPT ![c] = FALSE]
    /\ UNCHANGED <<paused, currentTime, pendingPlay, currentAudio, beatTween,
                   beatColorTween, cardsBeatTween, liveLoopTweens>>
    /\ UNCHANGED <<chVars, lifeVars, appVars>>

\* the audio of card c is being played back
Playing(c) == ~paused[c] /\ pendingPlay[c] = 0

audioEnded_KeepsPulse(c) ==
    /\ ~paused[c] /\ pendingPlay[c] = 0
    /\ paused' = [paused EXCEPT ![c] = TRUE]
    /\ checked' = [checked EXCEPT ![c] = FALSE]
    /\ UNCHANGED <<currentTime, pendingPlay, rejectedPlay, currentAudio, beatTween,
                   beatColorTween, cardsBeatTween, liveLoopTweens>>
    /\ UNCHANGED <<chVars, lifeVars, appVars>>

\* the "ended" listener of card c: playback reached the end of the track
audioEnded(c) ==
    /\ Playing(c)
    /\ paused' = [paused EXCEPT ![c] = TRUE]
    /\ checked' = [checked EXCEPT ![c] = FALSE]
    /\ stopBeatPulse
    /\ UNCHANGED <<currentTime, pendingPlay, rejectedPlay, currentAudio>>
    /\ UNCHANGED <<chVars, lifeVars, appVars>>

----------------------------------------------------------------------------
(* HorizontalScroll: the single-axis scroller *)

\* indexes of the .slide elements of a complete document
Slides == 0..(NumSlides - 1)

\* this.slides after setupElements: [] after its early return
slides == IF hsDom["sticky"] /\ hsDom["slides"] /\ hsDom["slider"] /\ hsDom["slide"]
          THEN Slides ELSE {}

\* the layouts of the document: slider.offsetWidth and slidesContainer.offsetWidth
Layouts ==
    {l \in [slider : 1..MaxWidth, slides : 1..(NumSlides * MaxWidth + 1)] :
        /\ l.slider <= l.slides
        /\ l.slides <= NumSlides * l.slider + 1}

\* setupDimensions(): the cached dimensions, dims being the ones held before
setupDimensions(dims) ==
    IF ~hsDom["slider"] \/ ~hsDom["slides"]
    THEN dims
    ELSE [totalMove |-> slidesWidth - sliderWidth, slideWidth |-> sliderWidth]

\* setupInitialStates(): every title out of view
setupInitialStates ==
    [i \in Slides |-> IF i \in slides /\ slideParts[i].title
                      THEN Inline(TitleOutY) ELSE NoInline]

animateTitles_NoHide(y, activeIndex) ==
    [i \in Slides |-> IF slideParts[i].title /\ i = activeIndex THEN Inline(0) ELSE y[i]]

\* animateTitles(titles, activeIndex), y being the targets held before
animateTitles(y, activeIndex) ==
    [i \in Slides |-> IF ~slideParts[i].title THEN y[i]
                      ELSE Inline(IF i = activeIndex THEN 0 ELSE TitleOutY)]

handleEntry_NoNull(st, entry) ==
    IF entry.ratio >= VisibleRatio
    THEN [index |-> {entry.target}, y |-> animateTitles(st.y, entry.target)]
    ELSE IF st.index = {entry.target}
    THEN [index |-> {entry.target - 1}, y |-> animateTitles(st.y, entry.target - 1)]
    ELSE st

\* the arrow function of handleIntersection, on one entry [target, ratio];
\* st is [index, y]: currentVisibleIndex and the title targets
handleEntry(st, entry) ==
    LET currentIndex == entry.target
        prevIndex == currentIndex - 1
    IN  IF entry.ratio >= VisibleRatio
        THEN [index |-> {currentIndex}, y |-> animateTitles(st.y, currentIndex)]
        ELSE IF entry.ratio < VisibleRatio /\ st.index = {currentIndex}
        THEN [index |-> IF prevIndex >= 0 THEN {prevIndex} ELSE {},
              y |-> animateTitles(st.y, prevIndex)]
        ELSE st

RECURSIVE forEachEntry(_, _)
\* entries.forEach(...)
forEachEntry(st, entries) ==
    IF entries = <<>> THEN st
    ELSE forEachEntry(handleEntry(st, Head(entries)), Tail(entries))

\* the intersection ratios delivered, in hundredths
Ratios == {0, VisibleRatio - 1, VisibleRatio, 100}

Entries == [target : Slides, ratio : Ratios]

\* the batches of entries the observer delivers in one callback
Batches == UNION {[1..n -> Entries] : n \in 1..MaxEntries}

\* handleIntersection(entries): the callback of the IntersectionObserver
handleIntersection(entries) ==
    /\ hsObserver
    /\ LET st == forEachEntry([index |-> currentVisibleIndex, y |-> titleY], entries)
       IN  /\ currentVisibleIndex' = st.index
           /\ titleY' = st.y
    /\ UNCHANGED <<slideParts, sliderWidth, slidesWidth, totalMove, slideWidth,
                   slidesX, imageX>>
    /\ UNCHANGED <<hsDom, hsScrollTrigger, hsObserver, lenisAlive, destroyed, thrown,
                   tickerVars, setupVars>>
    /\ UNCHANGED <<chVars, mhVars, appVars>>

applyImageParallax_NoReset(currentSlide, rem) ==
    [i \in Slides |->
        IF ~(i \in slides /\ slideParts[i].img) THEN imageX[i]
        ELSE IF i = currentSlide THEN Inline(rem)
        ELSE IF i = currentSlide + 1 THEN Inline(rem - One * slideWidth)
        ELSE imageX[i]]

\* applyImageParallax(currentSlide, slideProgress): slideProgress is handed over as
\* rem, its numerator over One * slideWidth, so that an offset of
\* slideProgress * slideWidth * 0.25 px is rem in units of 1/(4*One) px
applyImageParallax(currentSlide, rem) ==
    [i \in Slides |->
        IF ~(i \in slides /\ slideParts[i].img) THEN imageX[i]
        ELSE IF i = currentSlide THEN Inline(rem)
        ELSE IF i = currentSlide + 1 THEN Inline(rem - One * slideWidth)
        ELSE Inline(0)]

\* Math.floor(mainMove / slideWidth), mainMove in 1/One px
currentSlideOf(mainMove) == mainMove \div (One * slideWidth)

\* handleScrollUpdate(self): the onUpdate callback of the scroll trigger
handleScrollUpdate(p) ==
    /\ hsScrollTrigger
    /\ slideWidth > 0
    /\ LET mainMove == p * totalMove
       IN  /\ slidesX' = Inline(-mainMove)
           /\ imageX' = applyImageParallax(currentSlideOf(mainMove),
                                           mainMove % (One * slideWidth))
    /\ UNCHANGED <<slideParts, sliderWidth, slidesWidth, totalMove, slideWidth,
                   currentVisibleIndex, titleY>>
    /\ UNCHANGED <<hsDom, hsScrollTrigger, hsObserver, lenisAlive, destroyed, thrown,
                   tickerVars, setupVars>>
    /\ UNCHANGED <<chVars, mhVars, appVars>>

\* HorizontalScroll.refresh()
horizontalRefresh ==
    /\ LET dims == setupDimensions([totalMove |-> totalMove, slideWidth |-> slideWidth])
       IN  /\ totalMove' = dims.totalMove
           /\ slideWidth' = dims.slideWidth
    /\ UNCHANGED <<slideParts, sliderWidth, slidesWidth, currentVisibleIndex, titleY,
                   slidesX, imageX>>
    /\ UNCHANGED <<hsDom, hsScrollTrigger, hsObserver, lenisAlive, destroyed, thrown,
                   tickerVars, setupVars>>
    /\ UNCHANGED <<chVars, mhVars, appVars>>

----------------------------------------------------------------------------
(* Life cycle: destroy of the four controllers *)

Controllers == {"lenis", "horizontal", "complex", "gallery"}

HsElements == {"sticky", "slides", "slider", "slide"}

\* HorizontalScroll.setupElements: slides stays [] after the early return
hsSlides == hsDom["sticky"] /\ hsDom["slides"] /\ hsDom["slider"] /\ hsDom["slide"]
\* createIntersectionObserver and createScrollAnimation, with their guards
hsObserverCreated == hsDom["slider"] /\ hsSlides
hsTriggerCreated == hsDom["sticky"] /\ hsDom["slides"] /\ hsSlides

\* the methods each controller class defines besides its constructor and set-up
Methods(k) ==
    CASE k = "lenis" -> {"destroy"}
      [] k = "horizontal" -> {"refresh", "destroy"}
      [] k = "complex" -> {"refresh", "destroy"}
      [] k = "gallery" -> {"startBeatPulse", "stopBeatPulse"}

\* LenisScroll.destroy()
lenisDestroy ==
    /\ lenisAlive' = FALSE
    /\ destroyed' = destroyed \cup {"lenis"}
    /\ UNCHANGED <<hsDom, hsScrollTrigger, hsObserver, thrown>>
    /\ UNCHANGED <<hsVars, tickerVars, setupVars>>
    /\ UNCHANGED <<chVars, mhVars, appVars>>

\* HorizontalScroll.destroy()
horizontalDestroy ==
    /\ hsScrollTrigger' = FALSE
    /\ hsObserver' = FALSE
    /\ slidesX' = IF hsDom["slides"] THEN NoInline ELSE slidesX
    /\ imageX' = [i \in Slides |-> IF i \in slides /\ slideParts[i].img
                                   THEN NoInline ELSE imageX[i]]
    /\ titleY' = [i \in Slides |-> IF i \in slides /\ slideParts[i].title
                                   THEN NoInline ELSE titleY[i]]
    /\ destroyed' = destroyed \cup {"horizontal"}
    /\ UNCHANGED <<hsDom, lenisAlive, thrown>>
    /\ UNCHANGED <<slideParts, sliderWidth, slidesWidth, totalMove, slideWidth,
                   currentVisibleIndex, tickerVars, setupVars>>
    /\ UNCHANGED <<chVars, mhVars, appVars>>

\* a call of k.destroy(): a method the class does not define is undefined, and
\* calling it throws a TypeError
callDestroy(k) ==
    IF "destroy" \in Methods(k)
    THEN CASE k = "lenis" -> lenisDestroy
           [] k = "horizontal" -> horizontalDestroy
           [] k = "complex" -> complexDestroy
    ELSE /\ thrown' = thrown \cup {k}
         /\ UNCHANGED <<hsDom, hsScrollTrigger, hsObserver, lenisAlive, destroyed>>
         /\ UNCHANGED <<hsVars, tickerVars, setupVars>>
         /\ UNCHANGED <<chVars, mhVars, appVars>>

\* one frame of gsap.ticker: every registered callback runs; the raf closure
\* calls this.lenis.raf on the inertial model, destroyed or not
frameTick ==
    /\ tickerRaf
    /\ staleRaf' = (staleRaf \/ ~lenisAlive)
    /\ UNCHANGED <<hsDom, hsScrollTrigger, hsObserver, lenisAlive, destroyed, thrown,
                   hsVars, tickerRaf, setupVars>>
    /\ UNCHANGED <<chVars, mhVars, appVars>>

----------------------------------------------------------------------------
(* Set-up of the card gallery *)

MhElements == {<<"pinSection", 0>>} \cup {<<"card", c>> : c \in Cards}

\* the element a scroll trigger of the gallery is created on
mhTriggerElement(t) == IF t = <<"pin", 0>> THEN <<"pinSection", 0>> ELSE t

\* MeduzaHorizontal.createHorizontalPinAnimation(): the trigger it registers
createHorizontalPinAnimation == {<<"pin", 0>>}

\* MeduzaHorizontal.createCardsAnimation(): one trigger per configured card
createCardsAnimation == {<<"card", c>> : c \in Cards}

----------------------------------------------------------------------------
(* App: set-up and the debounced resize handler *)

Markers == {"home", "complex", "meduza"}

TickMs == DebounceMs \div TicksPerDelay

SetMin(S) == CHOOSE m \in S : \A n \in S : m <= n

\* the marker element each controller is created for; LenisScroll has none
MarkerOf == [k \in {"horizontal", "complex", "gallery"} |->
                CASE k = "horizontal" -> "home"
                  [] k = "complex" -> "complex"
                  [] k = "gallery" -> "meduza"]

initializeAnimations_NoGuard(M) == DOMAIN MarkerOf

\* App.initializeAnimations(): the controllers created in a document holding
\* the markers M
initializeAnimations(M) == {k \in DOMAIN MarkerOf : MarkerOf[k] \in M}

\* App.setup(): LenisScroll, then one controller per marker present
appSetup ==
    /\ ~appReady
    /\ appReady' = TRUE
    /\ instances' = {"lenis"} \cup initializeAnimations(markers)
    /\ LET dims == IF "home" \in markers
                   THEN setupDimensions([totalMove |-> 0, slideWidth |-> 0])
                   ELSE [totalMove |-> totalMove, slideWidth |-> slideWidth]
       IN  /\ totalMove' = dims.totalMove
           /\ slideWidth' = dims.slideWidth
    /\ UNCHANGED <<markers, timers, resizeTimer, sinceResize, burstRefreshes>>
    /\ UNCHANGED <<hsDom, hsScrollTrigger, hsObserver, lenisAlive, destroyed, thrown,
                   slideParts, sliderWidth, slidesWidth, currentVisibleIndex, titleY,
                   slidesX, imageX, tickerVars, setupVars>>
    /\ UNCHANGED <<chVars, mhVars>>

\* the timeouts left after clearTimeout(handle)
clearTimeout(handle) == timers \ {handle}

\* a "resize" event: the window takes a new size, so the document a new layout,
\* and the listener runs: clearTimeout(resizeTimer); resizeTimer = setTimeout(.., 250)
resize ==
    /\ appReady
    /\ \E l \in Layouts : sliderWidth' = l.slider /\ slidesWidth' = l.slides
    /\ timers' = clearTimeout(resizeTimer) \cup {DebounceMs}
    /\ resizeTimer' = DebounceMs
    /\ sinceResize' = 0
    /\ burstRefreshes' = IF sinceResize >= DebounceMs THEN 0 ELSE burstRefreshes
    /\ UNCHANGED <<markers, appReady, instances>>
    /\ UNCHANGED <<hsDom, hsScrollTrigger, hsObserver, lenisAlive, destroyed, thrown,
                   slideParts, totalMove, slideWidth, currentVisibleIndex, titleY,
                   slidesX, imageX, tickerVars, setupVars>>
    /\ UNCHANGED <<chVars, mhVars>>

\* time passes, never beyond the moment a pending timeout is due
tick ==
    /\ appReady
    /\ timers # {}
    /\ 0 \notin timers
    /\ LET d == Min(TickMs, SetMin(timers))
       IN  /\ timers' = {t - d : t \in timers}
           /\ resizeTimer' = IF resizeTimer > 0 THEN resizeTimer - d ELSE resizeTimer
           /\ sinceResize' = Min(sinceResize + d, DebounceMs)
    /\ UNCHANGED <<markers, appReady, instances, burstRefreshes>>
    /\ UNCHANGED <<chVars, mhVars, lifeVars>>

\* ScrollTrigger.refresh() executions of one run of the timeout callback:
\* the direct call, and the one inside complexHorizontal.refresh()
refreshCalls == 1 + (IF "complex" \in instances THEN 1 ELSE 0)

\* the controllers whose refresh() the timeout callback calls
refreshedControllers == IF "complex" \in instances THEN {"complex"} ELSE {}

\* the timeout callback of the resize handler
resizeTimeout ==
    /\ 0 \in timers
    /\ timers' = timers \ {0}
    /\ resizeTimer' = IF resizeTimer = 0 THEN -1 ELSE resizeTimer
    /\ burstRefreshes' = burstRefreshes + refreshCalls
    /\ LET dims == IF "horizontal" \in refreshedControllers
                   THEN setupDimensions([totalMove |-> totalMove,
                                         slideWidth |-> slideWidth])
                   ELSE [totalMove |-> totalMove, slideWidth |-> slideWidth]
       IN  /\ totalMove' = dims.totalMove
           /\ slideWidth' = dims.slideWidth
    /\ UNCHANGED <<markers, appReady, instances, sinceResize>>
    /\ UNCHANGED <<hsDom, hsScrollTrigger, hsObserver, lenisAlive, destroyed, thrown,
                   slideParts, sliderWidth, slidesWidth, currentVisibleIndex, titleY,
                   slidesX, imageX, tickerVars, setupVars>>
    /\ UNCHANGED <<chVars, mhVars>>

----------------------------------------------------------------------------
(* Initial states and specifications *)

\* ComplexHorizontal after its constructor, in a document holding the elements Present
InitCH(Present) ==
    /\ dom = [e \in Elements |-> e \in Present]
    /\ scrollTriggers = CreatedTriggers
    /\ pinnedImgClone = 0
    /\ isImgCloneActive = FALSE
    /\ flipAnimation = NoFlip
    /\ flipEntered = FALSE
    /\ bodyClones = {}
    /\ imgOpacity = 1
    /\ containerBg = NoInlineColor
    /\ wrapperX = NoInline
    /\ cloneX = NoInline
    /\ marqueeX = NoInline
    /\ progress = -1

\* MeduzaHorizontal after its constructor
InitMH ==
    /\ checked = [c \in Cards |-> FALSE]
    /\ paused = [c \in Cards |-> TRUE]
    /\ currentTime = [c \in Cards |-> 0]
    /\ pendingPlay = [c \in Cards |-> 0]
    /\ rejectedPlay = [c \in Cards |-> 0]
    /\ currentAudio = 0
    /\ beatTween = FALSE
    /\ beatColorTween = FALSE
    /\ cardsBeatTween = FALSE
    /\ liveLoopTweens = 0

\* HorizontalScroll and LenisScroll after their constructors
InitLife(HsPresent) ==
    /\ hsDom = [e \in HsElements |-> e \in HsPresent]
    /\ hsScrollTrigger = hsTriggerCreated
    /\ hsObserver = hsObserverCreated
    /\ lenisAlive = TRUE
    /\ destroyed = {}
    /\ thrown = {}
    /\ tickerRaf = TRUE
    /\ staleRaf = FALSE

\* the state of HorizontalScroll after its constructor, in a document whose slides
\* hold the parts Parts and whose layout is l
InitHS(Parts, l) ==
    /\ slideParts = Parts
    /\ sliderWidth = l.slider
    /\ slidesWidth = l.slides
    /\ LET dims == setupDimensions([totalMove |-> 0, slideWidth |-> 0])
       IN  /\ totalMove = dims.totalMove
           /\ slideWidth = dims.slideWidth
    /\ currentVisibleIndex = {}
    /\ titleY = setupInitialStates
    /\ slidesX = NoInline
    /\ imageX = [i \in Slides |-> NoInline]

\* every slide complete
FullSlides == [i \in Slides |-> [img |-> TRUE, title |-> TRUE]]

\* a layout of NumSlides slides as wide as the slider
FullLayout == [slider |-> MaxWidth, slides |-> NumSlides * MaxWidth]

\* the scroll triggers of MeduzaHorizontal after its constructor, in a document
\* holding the elements Present
InitSetup(Present) ==
    /\ mhDom = [e \in MhElements |-> e \in Present]
    /\ mhTriggers = createHorizontalPinAnimation \cup createCardsAnimation

\* App before setup(), in a document holding the markers Present
InitApp(Present) ==
    /\ markers = Present
    /\ appReady = FALSE
    /\ instances = {}
    /\ timers = {}
    /\ resizeTimer = -1
    /\ sinceResize = DebounceMs
    /\ burstRefreshes = 0

\* The complex scroller, in every document
InitComplex ==
    /\ \E Present \in SUBSET Elements : InitCH(Present)
    /\ InitMH
    /\ InitLife(HsElements)
    /\ InitHS(FullSlides, FullLayout)
    /\ InitSetup(MhElements)
    /\ InitApp(Markers)

NextComplex ==
    \/ \E p \in KeyProgresses : handleMainScrollUpdate(p)
    \/ \E q \in {0, One} : marqueeTrigger_onUpdate(q)
    \/ cloneTrigger_onEnter
    \/ cloneTrigger_onEnterBack
    \/ cloneTrigger_onLeaveBack
    \/ flipTrigger_onEnter
    \/ flipTrigger_onLeaveBack
    \/ complexDestroy

SpecComplex == InitComplex /\ [][NextComplex]_vars

\* The phase dispatcher alone: every element present, the clone created
\* (cloneTrigger.onEnter) and the shape-morph animation initialised
\* (flipTrigger.onEnter), and nothing but progress updates afterwards.
InitDispatch ==
    /\ dom = [e \in Elements |-> TRUE]
    /\ scrollTriggers = CreatedTriggers
    /\ pinnedImgClone = 1
    /\ isImgCloneActive = TRUE
    /\ flipAnimation = [exists |-> TRUE, target |-> 1, progress |-> 0, paused |-> TRUE]
    /\ flipEntered = TRUE
    /\ bodyClones = {1}
    /\ imgOpacity = 0
    /\ containerBg = NoInlineColor
    /\ wrapperX = NoInline
    /\ cloneX = NoInline
    /\ marqueeX = NoInline
    /\ progress = -1
    /\ InitMH
    /\ InitLife(HsElements)
    /\ InitHS(FullSlides, FullLayout)
    /\ InitSetup(MhElements)
    /\ InitApp(Markers)

NextDispatch == \E p \in Progresses : handleMainScrollUpdate(p)

SpecDispatch == InitDispatch /\ [][NextDispatch]_vars

\* The card gallery
InitGallery ==
    /\ InitCH(Elements)
    /\ InitMH
    /\ InitLife(HsElements)
    /\ InitHS(FullSlides, FullLayout)
    /\ InitSetup(MhElements)
    /\ InitApp(Markers)

NextGallery ==
    \/ \E c \in Cards, allowed \in BOOLEAN : toggleChange(c, allowed)
    \/ \E c \in Cards : playResolved(c)
    \/ \E c \in Cards : playRejected(c)
    \/ \E c \in Cards : audioEnded(c)

SpecGallery == InitGallery /\ [][NextGallery]_vars

\* destroy of each controller, in every document
InitLifeCycle ==
    /\ \E Present \in SUBSET Elements : InitCH(Present)
    /\ InitMH
    /\ \E HsPresent \in SUBSET HsElements : InitLife(HsPresent)
    /\ InitHS(FullSlides, FullLayout)
    /\ \E Present \in SUBSET MhElements : InitSetup(Present)
    /\ InitApp(Markers)

NextLifeCycle ==
    \/ \E k \in Controllers : callDestroy(k)
    \/ frameTick

SpecLifeCycle == InitLifeCycle /\ [][NextLifeCycle]_vars

\* The root application and its resize handler, for every set of markers
InitResize ==
    /\ InitCH(Elements)
    /\ InitMH
    /\ InitLife(HsElements)
    /\ \E l \in Layouts : InitHS(FullSlides, l)
    /\ InitSetup(MhElements)
    /\ \E Present \in SUBSET Markers : InitApp(Present)

NextResize ==
    \/ appSetup
    \/ resize
    \/ tick
    \/ resizeTimeout

SpecResize == InitResize /\ [][NextResize]_vars

\* the documents of the single-axis scroller: at most one slide without an img,
\* at most one without a title
SlideDocuments ==
    {P \in [Slides -> [img : BOOLEAN, title : BOOLEAN]] :
        /\ Cardinality({i \in Slides : ~P[i].img}) <= 1
        /\ Cardinality({i \in Slides : ~P[i].title}) <= 1}

\* The intersection observer of the single-axis scroller, in every such document
InitObserver ==
    /\ InitCH(Elements)
    /\ InitMH
    /\ InitLife(HsElements)
    /\ \E Parts \in SlideDocuments : InitHS(Parts, FullLayout)
    /\ InitSetup(MhElements)
    /\ InitApp(Markers)

NextObserver ==
    \/ \E entries \in Batches : handleIntersection(entries)
    \/ horizontalDestroy

SpecObserver == InitObserver /\ [][NextObserver]_vars

\* The scroll trigger of the single-axis scroller, in every such document and
\* every layout
InitHorizontal ==
    /\ InitCH(Elements)
    /\ InitMH
    /\ InitLife(HsElements)
    /\ \E Parts \in SlideDocuments, l \in Layouts : InitHS(Parts, l)
    /\ InitSetup(MhElements)
    /\ InitApp(Markers)

NextHorizontal ==
    \/ \E p \in Progresses : handleScrollUpdate(p)
    \/ horizontalRefresh
    \/ horizontalDestroy

SpecHorizontal == InitHorizontal /\ [][NextHorizontal]_vars

\* Every controller side by side
Init == InitGallery
Next == NextComplex \/ NextGallery \/ NextLifeCycle \/ NextResize \/ NextObserver
        \/ NextHorizontal
Spec == Init /\ [][Next]_vars

----------------------------------------------------------------------------
(* Properties *)

\* the shape-morph animation of the post-setup state
FreshFlip == [exists |-> TRUE, target |-> 1, progress |-> 0, paused |-> TRUE]

\* C1: after any sequence of progress updates ending with p (clone and shape-morph
\* animation present throughout), the container background, the morph scrub
\* position, the wrapper translation and the clone translation are those that the
\* single update p yields from the post-setup state.
C1_PathIndependent ==
    progress >= 0 =>
        /\ containerBg = updateBackgroundColor(progress, NoInlineColor)
        /\ flipAnimation = updateFlipAnimation(progress, FreshFlip)
        /\ wrapperX = updateWrapperX(progress, NoInline)
        /\ cloneX = updateCloneX(progress, NoInline)

\* C2: at most one card's audio is being played back, in every reachable state
\* of the gallery.
C2_AtMostOnePlaying == Cardinality({c \in Cards : Playing(c)}) <= 1

\* a change event on card b that checks its toggle
ChecksToggle(b) == ~checked[b] /\ \E allowed \in BOOLEAN : toggleChange(b, allowed)

\* C3: when card a is playing and is the current track, a change event that
\* checks the toggle of another card b leaves a paused, at position 0 and
\* unchecked, and leaves b checked with one more play() request outstanding.
C3_SequentialSwitch ==
    [][\A a, b \in Cards :
          (a # b /\ currentAudio = a /\ Playing(a) /\ ChecksToggle(b))
          => /\ paused'[a]
             /\ currentTime'[a] = 0
             /\ ~checked'[a]
             /\ checked'[b]
             /\ pendingPlay'[b] + rejectedPlay'[b]
                  = pendingPlay[b] + rejectedPlay[b] + 1]_vars

\* card a was the current, started track and has been switched off by checking b
C3_Witness ==
    \E a, b \in Cards :
        /\ a # b
        /\ currentAudio = a /\ paused[a] /\ currentTime[a] = 0 /\ ~checked[a]
        /\ checked[b] /\ pendingPlay[b] = 1 /\ ~paused[b]

\* C4: at most one clone is attached to the document; a create callback of the
\* clone trigger while a clone is active attaches nothing, and a leave-back
\* callback while none is active changes nothing.
C4_AtMostOneClone ==
    /\ [](Cardinality(bodyClones) <= 1)
    /\ [][/\ (isImgCloneActive /\ (cloneTrigger_onEnter \/ cloneTrigger_onEnterBack))
              => (bodyClones' = bodyClones /\ pinnedImgClone' = pinnedImgClone)
          /\ (~isImgCloneActive /\ cloneTrigger_onLeaveBack)
              => UNCHANGED vars]_vars

\* a clone is attached and active, and the progress updates have moved it
C4_Witness ==
    /\ Cardinality(bodyClones) = 1
    /\ isImgCloneActive
    /\ pinnedImgClone \in bodyClones
    /\ cloneX.inline

\* a step that runs stopBeatPulse with no pulse tween referenced
StopsIdlePulse ==
    /\ ReferencedTweens = 0
    /\ \E c \in Cards : audioEnded(c) \/ (checked[c] /\ toggleChange(c, TRUE))

\* C5: never more than three looping pulse tweens are alive, and stopBeatPulse
\* with no pulse active throws nothing and leaves the three references null.
C5_PulseGuard ==
    /\ [](liveLoopTweens <= 3)
    /\ [][StopsIdlePulse
          => (ReferencedTweens' = 0 /\ liveLoopTweens' = liveLoopTweens
              /\ thrown' = thrown)]_vars

\* two cards have started playing, the second one while the pulse was on
C5_Witness ==
    /\ liveLoopTweens = 3
    /\ beatTween /\ beatColorTween /\ cardsBeatTween
    /\ \E a, b \in Cards : a # b /\ Playing(a) /\ Playing(b) /\ currentTime[a] = 1
                           /\ currentTime[b] = 1

\* C6: ScrollTrigger.refresh runs only once 250 ms have passed without a resize
\* event, and at most once per burst of resize events.
C6_Debounce ==
    /\ burstRefreshes > 0 => sinceResize >= DebounceMs
    /\ burstRefreshes <= 1

\* C7: destroy on each of the four controllers completes without throwing.
C7_DestroyNeverThrows == \A k \in Controllers : k \notin thrown

\* the wrapper translation the table of phases gives for p >= 0.2
ExpectedWrapperX(p) ==
    IF p >= HorizontalPhaseEnd THEN -(WrapperEndX * HorizontalSpan)
    ELSE -(WrapperEndX * (p - FlipPhaseEnd))

\* C8: after an update p the wrapper translation is 0% at p = 0.2, -66.67% for
\* p >= 0.95 and -66.67% * (p - 0.2) / 0.75 in between, non-increasing in p,
\* whatever was fed before.
C8_WrapperTranslation ==
    /\ progress >= FlipPhaseEnd => wrapperX.v = ExpectedWrapperX(progress)
    /\ \A p, q \in Progresses :
          (FlipPhaseEnd <= p /\ p <= q) => ExpectedWrapperX(q) <= ExpectedWrapperX(p)

\* twice the distance of channel i of colour c from the exact mix of light and
\* dark at fraction p / 0.05, times ColorPhaseEnd
MixError(c, i, p) ==
    LET d == 2 * (c[i] * ColorPhaseEnd
                  - (LightColor[i] * ColorPhaseEnd + (DarkColor[i] - LightColor[i]) * p))
    IN  IF d >= 0 THEN d ELSE -d

\* the background the table of phases gives for p: light at 0, dark from 0.05
\* on, and in between the linear mix, every channel rounded to an integer
ExpectedBackground(p, bg) ==
    /\ bg.inline
    /\ p = 0 => bg.v = LightColor
    /\ p >= ColorPhaseEnd => bg.v = DarkColor
    /\ (0 < p /\ p < ColorPhaseEnd)
          => \A i \in 1..3 : MixError(bg.v, i, p) <= ColorPhaseEnd

\* C9: with the container present, after an update p the background is the light
\* colour at p = 0, the dark colour for p >= 0.05 and the linear mix in between.
C9_BackgroundColor ==
    [][\A p \in KeyProgresses :
          (container /\ handleMainScrollUpdate(p))
          => ExpectedBackground(p, containerBg')]_vars

\* the 50% mix has been set by the update p = 0.025
C9_Witness ==
    /\ container
    /\ progress = ColorPhaseEnd \div 2
    /\ containerBg = Inline(<<129, 128, 127>>)

\* C10: when the shape-morph animation exists, after an update p its scrub
\* position is min(p / 0.2, 1).
C10_FlipScrub ==
    [][\A p \in KeyProgresses :
          (handleMainScrollUpdate(p) /\ flipAnimation'.exists)
          => flipAnimation'.progress
               = (IF 5 * p <= One THEN 5 * p ELSE One)]_vars

\* the animation has been scrubbed to 1 by an update beyond 0.2
C10_Witness ==
    /\ flipAnimation.exists
    /\ progress > FlipPhaseEnd
    /\ flipAnimation.progress = One
    /\ wrapperX = Inline(ExpectedWrapperX(progress))

\* C11: once a resize has settled (set-up done, no timeout pending), the cached
\* dimensions of an instantiated single-axis scroller are those of the current
\* layout: the timeout callback has invoked its refresh.
C11_ResizeRefreshesAll ==
    (appReady /\ "horizontal" \in instances /\ timers = {})
    => /\ slideWidth = sliderWidth
       /\ totalMove = slidesWidth - sliderWidth

\* C12: every instantiated controller, of all four, has a marker element and that
\* marker is present in the document.
C12_MarkerGated ==
    \A k \in instances : k \in DOMAIN MarkerOf /\ MarkerOf[k] \in markers

\* C12, amended: each of the three controllers created for a marker (.--home,
\* .--complex, .home-meduza) is instantiated only if its marker is present in the
\* document at set-up, and once set-up has run it is instantiated iff it is;
\* the smooth-scroll adapter has no marker and is instantiated by every set-up.
C12_GatedControllers ==
    /\ \A k \in DOMAIN MarkerOf : k \in instances => MarkerOf[k] \in markers
    /\ appReady => /\ "lenis" \in instances
                   /\ \A k \in DOMAIN MarkerOf :
                         MarkerOf[k] \in markers => k \in instances

\* set-up has run in a document with one marker present and another absent
C12_Witness ==
    /\ appReady
    /\ "home" \notin markers /\ "horizontal" \notin instances
    /\ "complex" \in markers /\ "complex" \in instances

\* the complex scroller holds nothing and overrides nothing
Torn ==
    /\ scrollTriggers = {}
    /\ ~flipAnimation.exists /\ ~flipEntered
    /\ pinnedImgClone = 0 /\ ~isImgCloneActive /\ bodyClones = {}
    /\ imgOpacity = 1
    /\ containerBg = NoInlineColor
    /\ marqueeX = NoInline
    /\ wrapperX = NoInline

\* C13: from every reachable state of the complex scroller, destroy leaves no
\* registered trigger, no shape-morph animation, no clone (isImgCloneActive false,
\* the source image visible) and no inline override on the container background,
\* the marquee track and the wrapper; a destroy after a completed destroy changes
\* nothing.
C13_DestroyTearsDown ==
    [][/\ "complex" \in destroyed' => Torn'
       /\ complexDestroy
           => /\ Torn'
              /\ "complex" \in destroyed => UNCHANGED vars]_vars

\* destroy has run in a complete document after the scroll went through the phases
C13_Witness ==
    /\ "complex" \in destroyed
    /\ \A e \in Elements : dom[e]
    /\ progress > FlipPhaseEnd
    /\ Torn

\* C14: once destroy of the smooth-scroll adapter has completed, the per-frame
\* callback it registered at construction is no longer registered with the
\* animation loop, and no frame tick has run the update of the destroyed
\* inertial model.
C14_DestroyUnregistersTick ==
    "lenis" \in destroyed => (~tickerRaf /\ ~staleRaf)

\* C15: when the catch callback of a rejected play() of card c runs, the toggle of
\* c ends unchecked, currentAudio and the pulse tweens are what they were, and no
\* new play() request is made: no audio starts and no promise is added.
C15_RejectedPlay ==
    [][\A c \in Cards :
          playRejected(c)
          => /\ ~checked'[c]
             /\ currentAudio' = currentAudio
             /\ <<beatTween, beatColorTween, cardsBeatTween, liveLoopTweens>>'
                  = <<beatTween, beatColorTween, cardsBeatTween, liveLoopTweens>>
             /\ paused' = paused /\ pendingPlay' = pendingPlay
             /\ rejectedPlay'[c] = rejectedPlay[c] - 1]_vars

\* the play() of a checked card has been rejected and its catch callback is due,
\* while another card is the current track and the pulse is running
C15_Witness ==
    \E a, c \in Cards :
        /\ a # c /\ currentAudio = a /\ beatTween
        /\ checked[c] /\ rejectedPlay[c] > 0

\* C16: in every document, every scroll trigger and observer a controller has
\* registered is registered on an element the document holds: a set-up step whose
\* element is absent registers nothing.
C16_SetupGuards ==
    /\ \A t \in scrollTriggers : dom[triggerElement(t)]
    /\ hsScrollTrigger => hsDom["sticky"]
    /\ hsObserver => (hsDom["slider"] /\ hsDom["slide"])
    /\ \A t \in mhTriggers : mhDom[mhTriggerElement(t)]

\* the active slide after the observation of slide i at ratio r, cur being the
\* active slide before
NextVisible(cur, i, r) ==
    IF r >= VisibleRatio THEN {i}
    ELSE IF cur = {i} THEN (IF i = 0 THEN {} ELSE {i - 1})
    ELSE cur

\* C17: currentVisibleIndex is always null or one index in 0..N-1; an observation
\* of slide i at a ratio >= 0.25 sets it to i; at a ratio < 0.25 while it is i it
\* becomes i-1, or null when i = 0; at a ratio < 0.25 while it is not i it stays.
C17_ActiveSlide ==
    /\ [](/\ currentVisibleIndex \subseteq Slides
          /\ Cardinality(currentVisibleIndex) <= 1
          /\ \A i \in Slides, r \in Ratios :
                handleEntry([index |-> currentVisibleIndex, y |-> titleY],
                            [target |-> i, ratio |-> r]).index
                  = NextVisible(currentVisibleIndex, i, r))
    /\ [][\A i \in Slides, r \in Ratios :
             handleIntersection(<<[target |-> i, ratio |-> r]>>)
             => currentVisibleIndex' = NextVisible(currentVisibleIndex, i, r)]_vars

\* the observer has reported slides up to the last one: the last slide is active
\* and its title is the one in view
C17_Witness ==
    /\ currentVisibleIndex = {NumSlides - 1}
    /\ titleY[NumSlides - 1] = Inline(0)
    /\ hsObserver

\* C18: while the flip trigger is entered (its enter callback has run and it has
\* not been left backward since), a paused shape-morph animation exists, whether
\* or not the clone trigger was entered before the flip trigger.
C18_FlipEnterCreates ==
    flipEntered => (flipAnimation.exists /\ flipAnimation.paused)

\* no shape-morph animation, the container background light, the wrapper at 0%
ResetState ==
    /\ ~flipAnimation.exists
    /\ container => containerBg = Inline(LightColor)
    /\ horizontalWrapper => wrapperX = Inline(0)

\* C19: after the leave-back callback of the flip trigger, whatever progress was
\* fed before, no shape-morph animation exists, the container background is the
\* light colour and the wrapper translation is 0%; a master update with p = 0 in
\* such a state keeps the animation, the background and the translation as they are.
C19_LeaveBackResets ==
    [][/\ flipTrigger_onLeaveBack => ResetState'
       /\ (ResetState /\ handleMainScrollUpdate(0))
           => /\ ResetState'
              /\ <<flipAnimation, containerBg, wrapperX>>'
                   = <<flipAnimation, containerBg, wrapperX>>]_vars

\* the flip trigger has been left backward after the scroll had reached the
\* horizontal phase, and the master update with p = 0 has followed
C19_Witness ==
    /\ container /\ horizontalWrapper
    /\ ~flipEntered /\ ResetState
    /\ wrapperX = Inline(0)
    /\ pinnedImgClone # 0 /\ cloneX.inline /\ cloneX.v < 0
    /\ progress = 0

\* floor(p * totalMove / slideWidth), p in 1/One
FloorSlide(p) ==
    CHOOSE k \in 0..(NumSlides + 1) :
        k * One * slideWidth <= p * totalMove /\ p * totalMove < (k + 1) * One * slideWidth

\* the image offset of slide i that the claim allows at progress p, in 1/(4*One) px:
\* 0.25 * (p * totalMove - k * slideWidth) for the slides k = FloorSlide(p) and
\* k + 1, and 0 for every other slide
ExpectedImageX(p, i) ==
    IF i \in {FloorSlide(p), FloorSlide(p) + 1}
    THEN Inline(p * totalMove - i * One * slideWidth)
    ELSE Inline(0)

\* the translations that the update with progress p has to produce, given the
\* offsets img of the images
ScrollState(p, x, img) ==
    /\ x = Inline(-(p * totalMove))
    /\ \A i \in Slides :
          slideParts[i].img
          => /\ img[i] = ExpectedImageX(p, i)
             /\ img[i].v # 0 => i \in {FloorSlide(p), FloorSlide(p) + 1}
             /\ i = FloorSlide(p)
                 => (0 <= img[i].v /\ img[i].v < One * slideWidth)
             /\ i = FloorSlide(p) + 1
                 => (-(One * slideWidth) <= img[i].v /\ img[i].v < 0)

\* C20: for every update with progress p (slideWidth > 0, totalMove >= 0) the slides
\* container is translated by -p * totalMove; only the slides floor(p * totalMove /
\* slideWidth) and the next one carry a non-zero image offset, within
\* [0, 0.25 * slideWidth) and [-0.25 * slideWidth, 0); every other image is at 0;
\* the translations are a function of p alone, whatever was fed before.
C20_ScrollParallax ==
    /\ [](hsScrollTrigger
          => \A p \in Progresses :
                LET mainMove == p * totalMove
                IN  ScrollState(p, Inline(-mainMove),
                                applyImageParallax(currentSlideOf(mainMove),
                                                   mainMove % (One * slideWidth))))
    /\ [][\A p \in Progresses :
             handleScrollUpdate(p) => ScrollState(p, slidesX', imageX')]_vars

\* an update has put the scroll inside a slide: its image is offset to the right,
\* the image of the next slide to the left, the container to the left
C20_Witness ==
    \E i \in Slides :
        /\ i + 1 \in Slides
        /\ slideParts[i].img /\ slideParts[i + 1].img
        /\ imageX[i].inline /\ imageX[i].v > 0
        /\ imageX[i + 1].inline /\ imageX[i + 1].v < 0
        /\ slidesX.inline /\ slidesX.v < 0

\* C21: whenever the "ended" listener of a card has run, in whatever state the
\* event occurred, the toggle of that card is unchecked and the three pulse tween
\* references are null.
C21_EndedStopsPulse ==
    [][\A c \in Cards :
          audioEnded(c)
          => /\ ~checked'[c]
             /\ ~beatTween' /\ ~beatColorTween' /\ ~cardsBeatTween'
             /\ liveLoopTweens' = 0]_vars

\* the track of a checked card is being played back with the pulse running: the
\* state in which its "ended" event occurs
C21_Witness ==
    \E c \in Cards :
        /\ Playing(c) /\ checked[c] /\ currentAudio = c
        /\ beatTween /\ beatColorTween /\ cardsBeatTween

\* a pulse is active: a looping pulse tween is referenced or alive
PulseActive ==
    beatTween \/ beatColorTween \/ cardsBeatTween \/ liveLoopTweens > 0

\* C22: in every reachable state of the gallery in which the pulse is active, the
\* audio of some card is playing, or at least has been started by a play() that
\* is not settled yet (its element is not paused).
C22_PulseOnlyWhilePlaying ==
    PulseActive => \E c \in Cards : ~paused[c]

\* C25: in every reachable state of the gallery, a card whose audio is being
\* played back has its toggle checked.
C25_PlayingIsChecked ==
    \A c \in Cards : Playing(c) => checked[c]

\* C28: in every reachable state of the gallery the three pulse tween references
\* are all null or all non-null, and one of them is non-null exactly when a
\* looping pulse tween is alive.
C28_TweenRefsAgree ==
    /\ beatTween = beatColorTween
    /\ beatColorTween = cardsBeatTween
    /\ (beatTween \/ beatColorTween \/ cardsBeatTween) <=> liveLoopTweens > 0

\* a pulse has been started: the three references are set together, three looping
\* tweens are alive and the current card is playing
C28_Witness ==
    /\ beatTween /\ beatColorTween /\ cardsBeatTween
    /\ liveLoopTweens = 3
    /\ \E c \in Cards : Playing(c) /\ currentAudio = c

\* C23: over increasing progress in (0.20, 1.0] the translation of the clone never
\* increases, and at p = 1 it is exactly -200%: an update with p >= the progress
\* of the update before, both above 0.20, leaves the clone at or left of where
\* it was.
C23_CloneMonotone ==
    [][\A p \in Progresses :
          (handleMainScrollUpdate(p) /\ progress > FlipPhaseEnd /\ p >= progress)
          => /\ cloneX'.v <= cloneX.v
             /\ p = One => cloneX' = Inline(Percent(-CloneEndX))]_vars

\* C24: whenever a shape-morph animation exists, a live clone exists and it is the
\* clone the animation was built on, under every interleaving of the callbacks of
\* the clone trigger and the flip trigger.
C24_FlipHasLiveClone ==
    flipAnimation.exists
    => /\ pinnedImgClone # 0 /\ isImgCloneActive
       /\ flipAnimation.target = pinnedImgClone

\* C27: in every reachable state, isImgCloneActive is true iff pinnedImgClone is
\* non-null and attached to the document, and iff the source marquee image is
\* hidden; after the removal of the clone the source image is visible.
C27_CloneBookkeeping ==
    /\ [](/\ isImgCloneActive <=> (pinnedImgClone # 0 /\ pinnedImgClone \in bodyClones)
          /\ isImgCloneActive <=> imgOpacity = 0)
    /\ [][(cloneTrigger_onLeaveBack \/ complexDestroy)
          => (imgOpacity' = 1 /\ pinnedImgClone' = 0)]_vars

\* a clone has been created after the scroll had reached the horizontal phase: it
\* is attached, not translated yet, and the source image is hidden
C27_Witness ==
    /\ isImgCloneActive /\ pinnedImgClone # 0 /\ pinnedImgClone \in bodyClones
    /\ imgOpacity = 0
    /\ cloneX = NoInline
    /\ progress > FlipPhaseEnd

\* the slides whose title is animated to the position in view
TitlesInView == {i \in Slides : slideParts[i].title /\ titleY[i] = Inline(0)}

\* C26: in every reachable state of the single-axis scroller, the set of titles
\* whose target position is in view is {currentVisibleIndex} when
\* currentVisibleIndex is non-null and empty when it is null.
C26_TitlesInView == TitlesInView = currentVisibleIndex

\* C26, amended: until destroy, the set of titles whose target position is in view
\* is {currentVisibleIndex} when currentVisibleIndex is non-null and that slide has
\* a title, and empty otherwise; in every state at most one title is in view.
C26_TitlesFollowActive ==
    /\ Cardinality(TitlesInView) <= 1
    /\ "horizontal" \notin destroyed
       => TitlesInView = {i \in currentVisibleIndex : slideParts[i].title}

\* the active slide has moved on from slide i - 1 to slide i: the title of i is
\* the one in view and the title of i - 1 is out of view again
C26_Witness ==
    \E i \in Slides :
        /\ i > 0 /\ currentVisibleIndex = {i}
        /\ TitlesInView = {i}
        /\ slideParts[i - 1].title /\ titleY[i - 1] = Inline(TitleOutY)
        /\ "horizontal" \notin destroyed

====
